---- MODULE Spec2Model ----
(***************************************************************************)
(* Model of getmask.py: a single-shot IPv4 mask / network calculator.      *)
(*                                                                         *)
(* Strings are sequences of one-character strings, so that parsing,       *)
(* splitting and formatting are computed and not assumed.  A 32-bit value  *)
(* (the int of an ipaddress.IPv4Address) is a tuple of four octets, most   *)
(* significant first; a Python int that may exceed 2^31 (the usable host   *)
(* count) is a record [hi, lo] standing for hi * 65536 + lo.               *)
(*                                                                         *)
(* The ipaddress module is modelled as CPython 3.11 implements it (octets  *)
(* with leading zeros are not valid, hosts() of a /31 yields both          *)
(* addresses and of a /32 the single address).  list(network.hosts()) is   *)
(* modelled by its value; the memory it takes for short prefixes is not.   *)
(***************************************************************************)
EXTENDS Integers, Sequences, FiniteSets, TLC

(***************************************************************************)
(* Characters and strings                                                  *)
(***************************************************************************)
DigitChars == <<"0", "1", "2", "3", "4", "5", "6", "7", "8", "9">>

HexChars == <<"0", "1", "2", "3", "4", "5", "6", "7", "8", "9",
              "a", "b", "c", "d", "e", "f">>

HexUpper == <<"0", "1", "2", "3", "4", "5", "6", "7", "8", "9",
              "A", "B", "C", "D", "E", "F">>

IsDigit(c) == \E i \in 1..10 : DigitChars[i] = c

DigitVal(c) == (CHOOSE i \in 1..10 : DigitChars[i] = c) - 1

IsHexDigit(c) == \E i \in 1..16 : HexChars[i] = c \/ HexUpper[i] = c

HexVal(c) == (CHOOSE i \in 1..16 : HexChars[i] = c \/ HexUpper[i] = c) - 1

\* str.isalpha() for one character of the input alphabet
IsAlpha(c) ==
    c \in {"a", "b", "c", "d", "e", "f", "g", "h", "i", "o", "r", "s", "w", "x",
           "A", "B", "C", "D", "E", "F"}

\* str.isdigit(): non-empty and every character a digit
StrIsDigit(s) == Len(s) >= 1 /\ \A i \in 1..Len(s) : IsDigit(s[i])

\* str.startswith
StartsWith(s, p) == Len(s) >= Len(p) /\ SubSeq(s, 1, Len(p)) = p

\* c in s
Contains(s, c) == \E i \in 1..Len(s) : s[i] = c

\* position of the first occurrence of c in s (c occurs in s)
FirstIndex(s, c) == CHOOSE i \in 1..Len(s) : s[i] = c /\ \A j \in 1..(i - 1) : s[j] # c

\* str.split(sep): the parts between the separators, empty parts kept
RECURSIVE Split(_, _)
Split(s, sep) ==
    IF Contains(s, sep)
    THEN LET i == FirstIndex(s, sep)
         IN <<SubSeq(s, 1, i - 1)>> \o Split(SubSeq(s, i + 1, Len(s)), sep)
    ELSE <<s>>

\* str.split(sep, 1): split at the first separator only (sep occurs in s)
SplitOnce(s, sep) ==
    LET i == FirstIndex(s, sep)
    IN <<SubSeq(s, 1, i - 1), SubSeq(s, i + 1, Len(s))>>

\* sep.join(parts)
RECURSIVE Join(_, _)
Join(parts, sep) ==
    IF Len(parts) = 0 THEN <<>>
    ELSE IF Len(parts) = 1 THEN parts[1]
    ELSE parts[1] \o <<sep>> \o Join(Tail(parts), sep)

\* value of a string of decimal digits (0 for the empty string)
RECURSIVE DecValue(_)
DecValue(s) ==
    IF Len(s) = 0 THEN 0
    ELSE DecValue(SubSeq(s, 1, Len(s) - 1)) * 10 + DigitVal(s[Len(s)])

\* str(n) for n >= 0
RECURSIVE DecStr(_)
DecStr(n) ==
    IF n < 10 THEN <<DigitChars[n + 1]>>
    ELSE DecStr(n \div 10) \o <<DigitChars[(n % 10) + 1]>>

\* int(p): an optional sign, then one or more decimal digits
PyIntOk(p) ==
    /\ Len(p) >= 1
    /\ LET body == IF p[1] \in {"+", "-"} THEN Tail(p) ELSE p
       IN StrIsDigit(body)

PyInt(p) ==
    IF p[1] = "-" THEN 0 - DecValue(Tail(p))
    ELSE IF p[1] = "+" THEN DecValue(Tail(p))
    ELSE DecValue(p)

(***************************************************************************)
(* 32-bit values: <<o1, o2, o3, o4>>, o1 the most significant octet        *)
(***************************************************************************)
MaxPrefixLen == 32

OctetMax == 255

AllOnes == <<OctetMax, OctetMax, OctetMax, OctetMax>>

RECURSIVE OctAnd(_, _, _)
OctAnd(a, b, n) ==
    IF n = 0 THEN 0
    ELSE (a % 2) * (b % 2) + 2 * OctAnd(a \div 2, b \div 2, n - 1)

RECURSIVE OctOr(_, _, _)
OctOr(a, b, n) ==
    IF n = 0 THEN 0
    ELSE (IF (a % 2) + (b % 2) >= 1 THEN 1 ELSE 0) + 2 * OctOr(a \div 2, b \div 2, n - 1)

RECURSIVE OctXor(_, _, _)
OctXor(a, b, n) ==
    IF n = 0 THEN 0
    ELSE (((a % 2) + (b % 2)) % 2) + 2 * OctXor(a \div 2, b \div 2, n - 1)

WordAnd(v, w) == [i \in 1..4 |-> OctAnd(v[i], w[i], 8)]

WordOr(v, w) == [i \in 1..4 |-> OctOr(v[i], w[i], 8)]

WordXor(v, w) == [i \in 1..4 |-> OctXor(v[i], w[i], 8)]

\* bit k (1 = most significant, 32 = least significant) of a 32-bit value
WordBit(w, k) ==
    LET o == w[((k - 1) \div 8) + 1]
        sh == 7 - ((k - 1) % 8)
    IN (o \div (2 ^ sh)) % 2

\* the 32-bit value with the given bits (a function on 1..32)
WordOfBits(b) ==
    [i \in 1..4 |->
        b[8 * i - 7] * 128 + b[8 * i - 6] * 64 + b[8 * i - 5] * 32 + b[8 * i - 4] * 16
        + b[8 * i - 3] * 8 + b[8 * i - 2] * 4 + b[8 * i - 1] * 2 + b[8 * i]]

\* w + 1 and w - 1 (defined when the result is a 32-bit value)
WordInc(w) ==
    IF w[4] < OctetMax THEN <<w[1], w[2], w[3], w[4] + 1>>
    ELSE IF w[3] < OctetMax THEN <<w[1], w[2], w[3] + 1, 0>>
    ELSE IF w[2] < OctetMax THEN <<w[1], w[2] + 1, 0, 0>>
    ELSE <<w[1] + 1, 0, 0, 0>>

WordDec(w) ==
    IF w[4] > 0 THEN <<w[1], w[2], w[3], w[4] - 1>>
    ELSE IF w[3] > 0 THEN <<w[1], w[2], w[3] - 1, OctetMax>>
    ELSE IF w[2] > 0 THEN <<w[1], w[2] - 1, OctetMax, OctetMax>>
    ELSE <<w[1] - 1, OctetMax, OctetMax, OctetMax>>

(***************************************************************************)
(* Python ints beyond 2^31: [hi, lo] is hi * 65536 + lo, 0 <= lo < 65536   *)
(***************************************************************************)
BigNorm(hi, lo) == [hi |-> hi + (lo \div 65536), lo |-> lo % 65536]

BigPow2(k) == IF k >= 16 THEN [hi |-> 2 ^ (k - 16), lo |-> 0] ELSE [hi |-> 0, lo |-> 2 ^ k]

BigAddInt(b, n) == BigNorm(b.hi, b.lo + n)

(***************************************************************************)
(* The ipaddress module, as the program uses it                            *)
(***************************************************************************)
\* one octet of a dotted address: ASCII digits, at most three, no leading
\* zero, value at most 255
ParseOctetOk(o) ==
    /\ StrIsDigit(o)
    /\ Len(o) <= 3
    /\ ~(o # <<"0">> /\ o[1] = "0")
    /\ DecValue(o) <= OctetMax

\* ipaddress.IPv4Address(s) does not raise AddressValueError
IsIPv4(s) ==
    LET parts == Split(s, ".")
    IN Len(parts) = 4 /\ \A i \in 1..4 : ParseOctetOk(parts[i])

\* int(ipaddress.IPv4Address(s)) for a valid s
IPv4Int(s) == LET parts == Split(s, ".") IN [i \in 1..4 |-> DecValue(parts[i])]

\* str(ipaddress.IPv4Address(w))
WordStr(w) == Join(<<DecStr(w[1]), DecStr(w[2]), DecStr(w[3]), DecStr(w[4])>>, ".")

\* number of clear low bits (32 for the value 0)
TrailingZeros(w) ==
    LET S == {k \in 1..MaxPrefixLen : WordBit(w, k) = 1}
    IN IF S = {} THEN MaxPrefixLen
       ELSE MaxPrefixLen - (CHOOSE k \in S : \A j \in S : j <= k)

\* _prefix_from_ip_int: the prefix length of a value of the form 1*0*, else -1
PrefixFromIpInt(w) ==
    LET prefixlen == MaxPrefixLen - TrailingZeros(w)
    IN IF \A k \in 1..prefixlen : WordBit(w, k) = 1 THEN prefixlen ELSE -1

\* _prefix_from_ip_string: a dotted netmask, else a dotted hostmask, else -1
PrefixFromIpString(s) ==
    IF ~IsIPv4(s) THEN -1
    ELSE LET w == IPv4Int(s)
         IN IF PrefixFromIpInt(w) >= 0 THEN PrefixFromIpInt(w)
            ELSE PrefixFromIpInt(WordXor(w, AllOnes))

\* _prefix_from_prefix_string: decimal digits with a value in 0..32, else -1
PrefixFromPrefixString(s) ==
    IF StrIsDigit(s) /\ Len(s) <= 4 /\ DecValue(s) <= MaxPrefixLen THEN DecValue(s) ELSE -1

\* _make_netmask of a string: its prefix length, -1 for NetmaskValueError
MakePrefix(s) ==
    IF PrefixFromPrefixString(s) >= 0 THEN PrefixFromPrefixString(s)
    ELSE PrefixFromIpString(s)

\* _ip_int_from_prefix: p set high bits, then 32 - p clear bits
NetmaskOfPrefix(p) == WordOfBits([k \in 1..MaxPrefixLen |-> IF k <= p THEN 1 ELSE 0])

\* variant: strict=True, which raises ValueError when host bits are set
IPv4NetworkStrict(addr, mask) ==
    IF ~IsIPv4(addr) THEN [ok |-> FALSE, exc |-> "AddressValueError"]
    ELSE IF MakePrefix(mask) < 0 THEN [ok |-> FALSE, exc |-> "NetmaskValueError"]
    ELSE LET prefixlen == MakePrefix(mask)
             netmask == NetmaskOfPrefix(prefixlen)
             network_address == WordAnd(IPv4Int(addr), netmask)
         IN IF network_address # IPv4Int(addr) THEN [ok |-> FALSE, exc |-> "ValueError"]
            ELSE [ok |-> TRUE,
                  prefixlen |-> prefixlen,
                  netmask |-> netmask,
                  network_address |-> network_address,
                  broadcast_address |-> WordOr(network_address, WordXor(netmask, AllOnes))]

\* ipaddress.IPv4Network(f"{addr}/{mask}", strict=False)
IPv4Network(addr, mask) ==
    IF ~IsIPv4(addr) THEN [ok |-> FALSE, exc |-> "AddressValueError"]
    ELSE IF MakePrefix(mask) < 0 THEN [ok |-> FALSE, exc |-> "NetmaskValueError"]
    ELSE LET prefixlen == MakePrefix(mask)
             netmask == NetmaskOfPrefix(prefixlen)
             network_address == WordAnd(IPv4Int(addr), netmask)
         IN [ok |-> TRUE,
             prefixlen |-> prefixlen,
             netmask |-> netmask,
             network_address |-> network_address,
             broadcast_address |-> WordOr(network_address, WordXor(netmask, AllOnes))]

\* list(network.hosts())[0]
HostsFirst(network) ==
    IF network.prefixlen >= MaxPrefixLen - 1 THEN network.network_address
    ELSE WordInc(network.network_address)

\* list(network.hosts())[-1]
HostsLast(network) ==
    IF network.prefixlen = MaxPrefixLen THEN network.network_address
    ELSE IF network.prefixlen = MaxPrefixLen - 1 THEN network.broadcast_address
    ELSE WordDec(network.broadcast_address)

(***************************************************************************)
(* parse_mask                                                              *)
(***************************************************************************)
\* int(mask_str, 16) for a string that starts with "0x": defined when one or
\* more hex digits follow
HexOk(s) == Len(s) >= 3 /\ \A i \in 3..Len(s) : IsHexDigit(s[i])

RECURSIVE StripZeros(_)
StripZeros(s) == IF Len(s) > 0 /\ s[1] = "0" THEN StripZeros(Tail(s)) ELSE s

\* the significant hex digits after "0x"
HexDigitsOf(s) == StripZeros(SubSeq(s, 3, Len(s)))

\* the 32-bit value of at most eight hex digits
HexWord(nibs) ==
    LET pad == 8 - Len(nibs)
        nib(k) == IF k <= pad THEN 0 ELSE HexVal(nibs[k - pad])
    IN [i \in 1..4 |-> nib(2 * i - 1) * 16 + nib(2 * i)]

\* any(int(p) > 255 for p in parts) raises ValueError or is True
OctetCheckFails(parts) ==
    \E i \in 1..Len(parts) : ~PyIntOk(parts[i]) \/ PyInt(parts[i]) > OctetMax

\* variant: the upper end excluded, 0 <= cidr < 32
CidrInRangeExclusive(cidr) == 0 <= cidr /\ cidr < MaxPrefixLen

\* the accepted range of a prefix length: 0 <= cidr <= 32
CidrInRange(cidr) == 0 <= cidr /\ cidr <= MaxPrefixLen

Returned(v) == [kind |-> "return", value |-> v, out |-> <<>>]

Raised(e) == [kind |-> e, value |-> <<>>, out |-> <<>>]

\* the ambiguous branch: the token is a valid IPv4 address
IpLookingBranch(mask_str, suppress_ip_warning) ==
    IF ~suppress_ip_warning
    THEN [kind |-> "SystemExit", value |-> <<>>, out |-> <<"ip_warning", "ip_hint">>]
    ELSE Returned(mask_str)

\* the body of the try statement
parse_mask_try(mask_str, suppress_ip_warning) ==
    IF StartsWith(mask_str, <<"0", "x">>)
    THEN IF HexOk(mask_str) /\ Len(HexDigitsOf(mask_str)) <= 8
         THEN Returned(WordStr(HexWord(HexDigitsOf(mask_str))))
         ELSE Raised("Exception")
    ELSE IF \E i \in 1..Len(mask_str) : IsAlpha(mask_str[i])
    THEN Raised("Exception")
    ELSE LET parts == Split(mask_str, ".")
         IN IF Len(parts) = 4
            THEN IF IsIPv4(mask_str)
                 THEN IpLookingBranch(mask_str, suppress_ip_warning)
                 ELSE IF OctetCheckFails(parts) THEN Raised("Exception")
                      ELSE Returned(mask_str)
            ELSE IF Len(parts) = 1 /\ StrIsDigit(parts[1])
            THEN IF CidrInRange(DecValue(parts[1]))
                 THEN Returned(WordStr(NetmaskOfPrefix(DecValue(parts[1]))))
                 ELSE Raised("Exception")
            ELSE Raised("Exception")

\* variant: a bare except, which catches SystemExit as well
ExceptBaseException(r) ==
    IF r.kind \in {"Exception", "SystemExit"}
    THEN [kind |-> "SystemExit", value |-> <<>>, out |-> r.out \o <<"invalid_mask_format">>]
    ELSE r

\* except Exception: SystemExit is not an Exception and passes through
ExceptException(r) ==
    IF r.kind = "Exception"
    THEN [kind |-> "SystemExit", value |-> <<>>, out |-> <<"invalid_mask_format">>]
    ELSE r

parse_mask(mask_str, suppress_ip_warning) ==
    ExceptException(parse_mask_try(mask_str, suppress_ip_warning))

(***************************************************************************)
(* mask_to_info and network_info                                           *)
(***************************************************************************)
\* an absent address field of a record, and the absent record
None == <<>>

NoInfo == [by |-> "none"]

\* variant: the two reserved addresses subtracted for /31 as well
UsableCountThrough31(cidr) ==
    IF cidr <= 31 THEN BigAddInt(BigPow2(MaxPrefixLen - cidr), -2)
    ELSE BigPow2(MaxPrefixLen - cidr)

\* usable = (2 ** (32 - cidr)) - 2 if cidr < 31 else (2 ** (32 - cidr))
UsableCount(cidr) ==
    IF cidr < 31 THEN BigAddInt(BigPow2(MaxPrefixLen - cidr), -2)
    ELSE BigPow2(MaxPrefixLen - cidr)

\* usable >= 2
UsableAtLeastTwo(usable) == usable.hi > 0 \/ (usable.hi = 0 /\ usable.lo >= 2)

warn_about_weird_subnet(cidr) ==
    IF cidr = 31 THEN <<"warn_31">>
    ELSE IF cidr = 32 THEN <<"warn_32">>
    ELSE <<>>

\* 0xFFFFFFFF ^ int(netmask)
WildcardOf(netmask) == WordXor(AllOnes, netmask)

\* the prefix length mask_to_info reports for its mask string
MaskCidr(mask_str) == IPv4Network(WordStr(<<0, 0, 0, 0>>), mask_str)

mask_to_info(mask_str) ==
    IF ~IsIPv4(mask_str) THEN [kind |-> "AddressValueError", info |-> NoInfo, out |-> <<>>]
    ELSE IF ~MaskCidr(mask_str).ok THEN [kind |-> "NetmaskValueError", info |-> NoInfo, out |-> <<>>]
    ELSE LET netmask == IPv4Int(mask_str)
             cidr == MaskCidr(mask_str).prefixlen
         IN [kind |-> "return",
             info |-> [by |-> "mask_to_info",
                       cidr |-> cidr,
                       netmask |-> netmask,
                       wildcard |-> WildcardOf(netmask),
                       usable |-> UsableCount(cidr),
                       network_address |-> None,
                       broadcast_address |-> None,
                       first |-> None,
                       last |-> None],
             out |-> <<"mask_info">> \o warn_about_weird_subnet(cidr)]

\* variant: usable > 2 in place of usable >= 2
BriefFirstAboveTwo(network, usable) ==
    IF usable.hi > 0 \/ (usable.hi = 0 /\ usable.lo > 2) THEN HostsFirst(network)
    ELSE network.network_address

\* the range of the brief line
BriefFirst(network, usable) ==
    IF UsableAtLeastTwo(usable) THEN HostsFirst(network) ELSE network.network_address

BriefLast(network, usable) ==
    IF UsableAtLeastTwo(usable) THEN HostsLast(network) ELSE network.broadcast_address

\* the first and last usable lines of the full report, printed if usable >= 2
FullFirst(network, usable) ==
    IF UsableAtLeastTwo(usable) THEN HostsFirst(network) ELSE None

FullLast(network, usable) ==
    IF UsableAtLeastTwo(usable) THEN HostsLast(network) ELSE None

\* whether the call reaches system_whois_lookup: the brief line returns first
CallsWhois(brief, do_whois) == ~brief /\ do_whois

network_info(ip_str, mask_str, brief, do_whois) ==
    LET pm == parse_mask(mask_str, TRUE)
        network == IPv4Network(ip_str, pm.value)
    IN IF pm.kind # "return"
       THEN [kind |-> pm.kind, info |-> NoInfo, out |-> pm.out, whois |-> FALSE]
       ELSE IF ~network.ok
       THEN [kind |-> network.exc, info |-> NoInfo, out |-> <<>>, whois |-> FALSE]
       ELSE LET cidr == network.prefixlen
                usable == UsableCount(cidr)
                info == [by |-> "network_info",
                         cidr |-> cidr,
                         netmask |-> network.netmask,
                         wildcard |-> WildcardOf(network.netmask),
                         usable |-> usable,
                         network_address |-> network.network_address,
                         broadcast_address |-> network.broadcast_address,
                         first |-> IF brief THEN BriefFirst(network, usable)
                                   ELSE FullFirst(network, usable),
                         last |-> IF brief THEN BriefLast(network, usable)
                                  ELSE FullLast(network, usable)]
            IN [kind |-> "return",
                info |-> info,
                out |-> IF brief THEN <<"brief_line">>
                        ELSE <<"network_info">>
                             \o (IF UsableAtLeastTwo(usable) THEN <<"first_last">> ELSE <<>>)
                             \o warn_about_weird_subnet(cidr),
                whois |-> CallsWhois(brief, do_whois)]

\* what system_whois_lookup prints: no whois binary, a report, or a failure
WhoisOutcomes == {"whois_not_found", "whois_report", "whois_failed"}

system_whois_lookup(called, w) == IF called THEN <<w>> ELSE <<>>

(***************************************************************************)
(* Command lines                                                           *)
(***************************************************************************)
BriefFlag == <<"-", "-", "b", "r", "i", "e", "f">>

WhoisFlag == <<"-", "-", "w", "h", "o", "i", "s">>

\* the largest number given as a bare prefix-length token
MaxCidrTok == 40

\* octet o (1..4) of the netmask with n leading set bits, by arithmetic
CanonOctet(n, o) ==
    LET b == IF n - 8 * (o - 1) >= 8 THEN 8
             ELSE IF n - 8 * (o - 1) <= 0 THEN 0
             ELSE n - 8 * (o - 1)
    IN 256 - 2 ^ (8 - b)

CanonMask(n) == <<CanonOctet(n, 1), CanonOctet(n, 2), CanonOctet(n, 3), CanonOctet(n, 4)>>

CanonMasks == {CanonMask(n) : n \in 0..32}

\* "0x" and the eight hex digits of a 32-bit value
HexStr(w, digits) ==
    <<"0", "x">> \o [k \in 1..8 |->
        LET o == w[((k - 1) \div 2) + 1]
        IN digits[(IF k % 2 = 1 THEN o \div 16 ELSE o % 16) + 1]]

Complement(w) == [i \in 1..4 |-> 255 - w[i]]

OctetPool == {<<"0">>, <<"2", "5", "5">>, <<"2", "5", "6">>, <<"-", "1">>, <<"0", "1">>}

DottedTokens ==
    {Join(<<a, b, c, d>>, ".") : a \in OctetPool, b \in OctetPool, c \in OctetPool, d \in OctetPool}
    \cup {WordStr(m) : m \in CanonMasks}
    \cup {WordStr(<<192, 168, 1, 1>>), WordStr(<<10, 0, 0, 5>>), WordStr(<<255, 0, 255, 0>>),
          WordStr(<<0, 255, 255, 255>>), WordStr(<<0, 0, 0, 255>>), WordStr(<<255, 255, 0, 255>>),
          <<"+", "1", ".", "0", ".", "0", ".", "0">>,
          <<"3", "0", "0", ".", "0", ".", "0", ".", "0">>,
          <<"1", ".", ".", "2", ".", "3">>,
          <<"1", ".", "2", ".", "3">>,
          <<"1", ".", "2", ".", "3", ".", "4", ".", "5">>,
          <<"1", ".", "2", ".", "3", ".", "x">>}

CidrTokens ==
    {DecStr(n) : n \in 0..MaxCidrTok}
    \cup {<<"0", "3", "2">>, <<"0", "0">>, <<"9", "9", "9">>, <<"+", "2", "4">>, <<"-", "1">>,
          <<"2", "4", "/", "3">>, <<>>, <<"a", "b", "c">>}

HexTokens ==
    {HexStr(m, HexUpper) : m \in CanonMasks}
    \cup {HexStr(m, HexChars) : m \in CanonMasks}
    \cup {HexStr(Complement(m), HexUpper) : m \in CanonMasks}
    \cup {HexStr(<<255, 0, 255, 0>>, HexUpper), HexStr(<<255, 255, 0, 255>>, HexUpper),
          HexStr(<<192, 168, 1, 1>>, HexChars),
          <<"0", "x">>, <<"0", "x", "F", "F">>, <<"0", "x", "g">>, <<"0", "X", "F", "F">>,
          <<"0", "x", "1", "F", "F", "F", "F", "F", "F", "F", "F">>,
          <<"0", "x", "0", "0", "F", "F", "F", "F", "F", "F", "0", "0">>}

MaskTokens == DottedTokens \cup CidrTokens \cup HexTokens

\* the tokens tried with every flag combination and every address
CoreTokens == {WordStr(m) : m \in CanonMasks} \cup CidrTokens \cup HexTokens

MainIp == WordStr(<<192, 168, 1, 10>>)

IpTokens ==
    {MainIp, WordStr(<<10, 0, 0, 5>>), WordStr(<<255, 255, 255, 255>>),
     <<"1", ".", "2", ".", "3">>, <<"0", "1", "0", ".", "0", ".", "0", ".", "1">>}

FlagPrefixes == {<<>>, <<BriefFlag>>, <<WhoisFlag>>, <<BriefFlag, WhoisFlag>>}

\* sys.argv[1:] of the invocations explored
CommandLines ==
    {<<m>> : m \in MaskTokens}
    \cup {f \o <<m>> : f \in FlagPrefixes, m \in CoreTokens}
    \cup {<<ip \o <<"/">> \o m>> : ip \in {MainIp}, m \in MaskTokens}
    \cup {f \o <<ip \o <<"/">> \o m>> : f \in FlagPrefixes, ip \in IpTokens, m \in CoreTokens}
    \cup {f \o <<ip, m>> : f \in FlagPrefixes, ip \in {MainIp}, m \in CoreTokens}
    \cup {<<m>> \o f : f \in FlagPrefixes, m \in CidrTokens}
    \cup {<<ip, m, m>> : ip \in IpTokens, m \in CidrTokens}
    \cup FlagPrefixes

(***************************************************************************)
(* The program: main                                                       *)
(***************************************************************************)
VARIABLES
    argv,       \* sys.argv[1:]
    pc,         \* "main", "dispatch", "parse_mask", "mask_to_info", "network_info", "exited"
    brief,      \* main's brief
    do_whois,   \* main's do_whois
    arg,        \* main's arg
    ip_part,    \* network_info's ip_str
    mask_part,  \* network_info's mask_str
    pm,         \* the last call of parse_mask: its arguments and its result
    info,       \* the record computed by mask_to_info or network_info
    out,        \* what was printed, in order
    exitCode    \* the exit status, -1 while running

vars == <<argv, pc, brief, do_whois, arg, ip_part, mask_part, pm, info, out, exitCode>>

NoCall == [called |-> FALSE]

Call(mask_str, suppress, r) ==
    [called |-> TRUE, mask_str |-> mask_str, suppress |-> suppress,
     kind |-> r.kind, value |-> r.value, out |-> r.out]

Init ==
    /\ argv \in CommandLines
    /\ pc = "main"
    /\ brief = FALSE
    /\ do_whois = FALSE
    /\ arg = <<>>
    /\ ip_part = <<>>
    /\ mask_part = <<>>
    /\ pm = NoCall
    /\ info = NoInfo
    /\ out = <<>>
    /\ exitCode = -1

\* list.remove(x): the list without the first occurrence of x (x occurs)
RemoveFirst(list, x) ==
    LET i == CHOOSE i \in 1..Len(list) : list[i] = x /\ \A j \in 1..(i - 1) : list[j] # x
    IN SubSeq(list, 1, i - 1) \o SubSeq(list, i + 1, Len(list))

InList(list, x) == \E i \in 1..Len(list) : list[i] = x

\* main, through the computation of arg
MainArgs ==
    /\ pc = "main"
    /\ LET b == InList(argv, BriefFlag)
           args1 == IF b THEN RemoveFirst(argv, BriefFlag) ELSE argv
           w == InList(args1, WhoisFlag)
           args == IF w THEN RemoveFirst(args1, WhoisFlag) ELSE args1
       IN IF Len(argv) = 0
          THEN /\ out' = <<"usage">>
               /\ exitCode' = 1
               /\ pc' = "exited"
               /\ UNCHANGED <<brief, do_whois, arg>>
          ELSE /\ brief' = b
               /\ do_whois' = w
               /\ IF Len(args) = 0
                  THEN /\ out' = <<"usage">>
                       /\ exitCode' = 1
                       /\ pc' = "exited"
                       /\ arg' = arg
                  ELSE /\ arg' = IF Len(args) = 2 THEN args[1] \o <<"/">> \o args[2] ELSE args[1]
                       /\ pc' = "dispatch"
                       /\ UNCHANGED <<out, exitCode>>
    /\ UNCHANGED <<argv, ip_part, mask_part, pm, info>>

\* main: the choice between network_info and the standalone mask
MainDispatch ==
    /\ pc = "dispatch"
    /\ IF Contains(arg, "/")
       THEN /\ ip_part' = SplitOnce(arg, "/")[1]
            /\ mask_part' = SplitOnce(arg, "/")[2]
            /\ pc' = "network_info"
            /\ UNCHANGED <<out, exitCode>>
       ELSE IF brief \/ do_whois
       THEN /\ out' = <<"only_for_ip_mask">>
            /\ exitCode' = 1
            /\ pc' = "exited"
            /\ UNCHANGED <<ip_part, mask_part>>
       ELSE /\ pc' = "parse_mask"
            /\ UNCHANGED <<out, exitCode, ip_part, mask_part>>
    /\ UNCHANGED <<argv, brief, do_whois, arg, pm, info>>

\* an uncaught exception ends the process with a traceback and status 1
Finish(kind) == IF kind = "return" THEN 0 ELSE 1

Printed(r) ==
    IF r.kind \in {"return", "SystemExit"} THEN r.out ELSE r.out \o <<"traceback">>

\* main: mask = parse_mask(arg)
MainParseMask ==
    /\ pc = "parse_mask"
    /\ \E r \in {parse_mask(arg, FALSE)} :
          /\ pm' = Call(arg, FALSE, r)
          /\ out' = out \o r.out
          /\ IF r.kind = "return"
             THEN pc' = "mask_to_info" /\ exitCode' = exitCode
             ELSE pc' = "exited" /\ exitCode' = 1
    /\ UNCHANGED <<argv, brief, do_whois, arg, ip_part, mask_part, info>>

\* main: mask_to_info(mask)
MainMaskToInfo ==
    /\ pc = "mask_to_info"
    /\ \E r \in {mask_to_info(pm.value)} :
          /\ info' = r.info
          /\ out' = out \o Printed(r)
          /\ exitCode' = Finish(r.kind)
          /\ pc' = "exited"
    /\ UNCHANGED <<argv, brief, do_whois, arg, ip_part, mask_part, pm>>

\* main: network_info(ip_part, mask_part, brief, do_whois)
MainNetworkInfo ==
    /\ pc = "network_info"
    /\ \E r \in {network_info(ip_part, mask_part, brief, do_whois)} :
       \E w \in IF r.whois THEN WhoisOutcomes ELSE {"not_called"} :
            /\ pm' = Call(mask_part, TRUE, parse_mask(mask_part, TRUE))
            /\ info' = r.info
            /\ out' = out \o Printed(r) \o system_whois_lookup(r.whois, w)
            /\ exitCode' = Finish(r.kind)
            /\ pc' = "exited"
    /\ UNCHANGED <<argv, brief, do_whois, arg, ip_part, mask_part>>

Next == MainArgs \/ MainDispatch \/ MainParseMask \/ MainMaskToInfo \/ MainNetworkInfo

Spec == Init /\ [][Next]_vars

(***************************************************************************)
(* Vocabulary of the properties                                            *)
(***************************************************************************)
Exited == pc = "exited"

\* normalize was called under warnAndReject / under acceptAsLiteral
WarnAndReject == pm.called /\ ~pm.suppress

AcceptAsLiteral == pm.called /\ pm.suppress

\* the failures of normalize
AmbiguousIpInput ==
    pm.called /\ pm.kind = "SystemExit" /\ pm.out = <<"ip_warning", "ip_hint">>

InvalidFormat ==
    pm.called /\ pm.kind = "SystemExit" /\ pm.out = <<"invalid_mask_format">>

\* the canonical dotted netmasks /0 .. /32
CanonDotted == {WordStr(CanonMask(n)) : n \in 0..32}

\* count of contiguous leading set bits of a 32-bit value
LeadingOnes(w) ==
    LET Z == {k \in 1..32 : WordBit(w, k) = 0}
    IN IF Z = {} THEN 32 ELSE (CHOOSE k \in Z : \A j \in Z : k <= j) - 1

\* a 32-bit value as a number [hi, lo]
ToBig(w) == [hi |-> w[1] * 256 + w[2], lo |-> w[3] * 256 + w[4]]

\* the 32-bit value a mask token denotes, if it denotes one
DenotesValue(tok) ==
    \/ IsIPv4(tok)
    \/ StartsWith(tok, <<"0", "x">>) /\ HexOk(tok) /\ Len(HexDigitsOf(tok)) <= 8

ValueOf(tok) == IF IsIPv4(tok) THEN IPv4Int(tok) ELSE HexWord(HexDigitsOf(tok))

WhoisPerformed == \E i \in 1..Len(out) : out[i] \in WhoisOutcomes

(***************************************************************************)
(* C1: every canonical dotted netmask (/0 .. /32) given to normalize is    *)
(* returned unchanged, under either ambiguity policy.                      *)
(***************************************************************************)
C1_CanonicalPassthrough ==
    (pm.called /\ pm.mask_str \in CanonDotted)
        => (pm.kind = "return" /\ pm.value = pm.mask_str)

(***************************************************************************)
(* C2: a mask token whose 32-bit value is not a run of set high bits       *)
(* followed by clear low bits is never returned by normalize and never     *)
(* leads to a NetworkInfo record.                                          *)
(***************************************************************************)
C2_NonContiguousRejected ==
    (pm.called /\ DenotesValue(pm.mask_str) /\ ValueOf(pm.mask_str) \notin CanonMasks)
        => (pm.kind # "return" /\ info = NoInfo)

(***************************************************************************)
(* C3 as stated: in every network_info result, usableCount >= 2 gives      *)
(* first = network + 1 and last = broadcast - 1, and otherwise first =     *)
(* network and last = broadcast.                                           *)
(***************************************************************************)
C3_AsStated ==
    info.by = "network_info"
        => IF UsableAtLeastTwo(info.usable)
           THEN /\ info.first # None /\ info.last # None
                /\ ToBig(info.first) = BigAddInt(ToBig(info.network_address), 1)
                /\ ToBig(info.last) = BigAddInt(ToBig(info.broadcast_address), -1)
           ELSE /\ info.first = info.network_address
                /\ info.last = info.broadcast_address

(***************************************************************************)
(* C3 amended: in every network_info result, a prefix of at most 30 gives  *)
(* first = network + 1 and last = broadcast - 1; for /31 and /32 the       *)
(* reported first and last are the network and broadcast addresses; the    *)
(* full report omits first and last exactly when usableCount < 2 (/32).    *)
(* 192.168.1.10 with /24 gives 192.168.1.1 and 192.168.1.254.              *)
(***************************************************************************)
C3_FirstLastUsable ==
    info.by = "network_info"
        => /\ info.cidr <= 30 =>
                /\ info.first # None /\ info.last # None
                /\ ToBig(info.first) = BigAddInt(ToBig(info.network_address), 1)
                /\ ToBig(info.last) = BigAddInt(ToBig(info.broadcast_address), -1)
           /\ (info.cidr >= 31 /\ info.first # None) =>
                /\ info.first = info.network_address
                /\ info.last = info.broadcast_address
           /\ (info.first = None) = (info.last = None)
           /\ (info.first = None) = (~brief /\ ~UsableAtLeastTwo(info.usable))
           /\ (ip_part = MainIp /\ info.cidr = 24) =>
                /\ info.first = <<192, 168, 1, 1>>
                /\ info.last = <<192, 168, 1, 254>>

C3_Witness ==
    /\ Exited
    /\ info.by = "network_info"
    /\ info.cidr = 31
    /\ UsableAtLeastTwo(info.usable)
    /\ info.first = info.network_address
    /\ info.last = info.broadcast_address

(***************************************************************************)
(* C4: for a valid address and a valid mask, network_info does not reject  *)
(* an address with host bits set; the network address is the address AND   *)
(* the netmask, the broadcast address is the network address OR the        *)
(* wildcard, and the wildcard is the complement of the netmask.            *)
(***************************************************************************)
\* the prefix length a valid mask token denotes, -1 for any other token
ValidMaskPrefix(tok) ==
    IF \E n \in 0..32 : tok = DecStr(n) THEN CHOOSE n \in 0..32 : tok = DecStr(n)
    ELSE IF DenotesValue(tok) /\ ValueOf(tok) \in CanonMasks THEN LeadingOnes(ValueOf(tok))
    ELSE -1

C4_NetworkAndBroadcast ==
    (Exited /\ AcceptAsLiteral /\ IsIPv4(ip_part) /\ ValidMaskPrefix(mask_part) >= 0)
        => /\ exitCode = 0
           /\ info.by = "network_info"
           /\ info.netmask = CanonMask(ValidMaskPrefix(mask_part))
           /\ \A k \in 1..32 :
                /\ WordBit(info.wildcard, k) = 1 - WordBit(info.netmask, k)
                /\ WordBit(info.network_address, k)
                     = WordBit(IPv4Int(ip_part), k) * WordBit(info.netmask, k)
                /\ WordBit(info.broadcast_address, k)
                     = IF WordBit(info.wildcard, k) = 1 THEN 1
                       ELSE WordBit(info.network_address, k)

C4_Witness ==
    /\ Exited
    /\ ip_part = MainIp
    /\ info.by = "network_info"
    /\ info.cidr = 24
    /\ info.network_address = <<192, 168, 1, 0>>
    /\ info.broadcast_address = <<192, 168, 1, 255>>
    /\ info.network_address # IPv4Int(ip_part)

(***************************************************************************)
(* C5: in every record of mask_to_info or network_info, cidr is in 0..32   *)
(* and usableCount is 2^(32-cidr) - 2 when cidr < 31 and 2^(32-cidr)       *)
(* otherwise (2 for /31, 1 for /32); it is never negative.                 *)
(***************************************************************************)
C5_UsableCount ==
    info.by # "none"
        => /\ info.cidr \in 0..32
           /\ info.usable.hi >= 0
           /\ info.usable.lo \in 0..65535
           /\ BigAddInt(info.usable, IF info.cidr < 31 THEN 2 ELSE 0) = BigPow2(32 - info.cidr)
           /\ info.cidr = 31 => info.usable = [hi |-> 0, lo |-> 2]
           /\ info.cidr = 32 => info.usable = [hi |-> 0, lo |-> 1]
           /\ info.cidr = 24 => info.usable = [hi |-> 0, lo |-> 254]

C5_Witness ==
    /\ Exited
    /\ info.by = "mask_to_info"
    /\ info.cidr = 31
    /\ info.usable = [hi |-> 0, lo |-> 2]

(***************************************************************************)
(* C6: for n in 0..32, normalize of the decimal digits of n returns the    *)
(* netmask with n leading set bits and 32-n trailing clear bits, and the   *)
(* cidr mask_to_info derives from it is n; an all-digit token with a value *)
(* above 32 fails with InvalidFormat.                                      *)
(***************************************************************************)
C6_CidrRoundTrip ==
    /\ \A n \in 0..32 :
         (pm.called /\ pm.mask_str = DecStr(n))
            => /\ pm.kind = "return"
               /\ DenotesValue(pm.value)
               /\ \A k \in 1..32 : WordBit(ValueOf(pm.value), k) = IF k <= n THEN 1 ELSE 0
               /\ (Exited /\ WarnAndReject)
                    => (exitCode = 0 /\ info.by = "mask_to_info" /\ info.cidr = n)
    /\ (pm.called /\ StrIsDigit(pm.mask_str) /\ DecValue(pm.mask_str) > 32)
            => (InvalidFormat /\ Exited /\ exitCode = 1 /\ info = NoInfo)

C6_Witness ==
    /\ Exited
    /\ WarnAndReject
    /\ pm.mask_str = <<"2", "4">>
    /\ pm.value = WordStr(<<255, 255, 255, 0>>)
    /\ info.by = "mask_to_info"
    /\ info.cidr = 24

(***************************************************************************)
(* C7: a four-part dotted token that is a valid IPv4 address: under        *)
(* warnAndReject the warning and the hint are printed and the invocation   *)
(* ends with AmbiguousIpInput, exit code 1, not InvalidFormat, and no      *)
(* netmask; under acceptAsLiteral nothing is printed by normalize and the  *)
(* token is returned unchanged.                                            *)
(***************************************************************************)
C7_AmbiguousIp ==
    (pm.called /\ Len(Split(pm.mask_str, ".")) = 4 /\ IsIPv4(pm.mask_str))
        => IF ~pm.suppress
           THEN /\ AmbiguousIpInput
                /\ ~InvalidFormat
                /\ Exited
                /\ exitCode = 1
                /\ out = <<"ip_warning", "ip_hint">>
                /\ info = NoInfo
           ELSE /\ pm.kind = "return"
                /\ pm.value = pm.mask_str
                /\ pm.out = <<>>
                /\ \A i \in 1..Len(out) : out[i] \notin {"ip_warning", "ip_hint"}

C7_Witness ==
    /\ Exited
    /\ WarnAndReject
    /\ pm.mask_str = WordStr(<<192, 168, 1, 1>>)
    /\ AmbiguousIpInput
    /\ exitCode = 1

(***************************************************************************)
(* C8: with --whois and an IP/mask form whose network computation          *)
(* succeeds, the WHOIS lookup is performed after the network information,  *)
(* with or without --brief; with --brief or --whois and no IP/mask form    *)
(* the program exits with code 1 without computing mask information.       *)
(***************************************************************************)
C8_WhoisAfterNetworkInfo ==
    /\ (Exited /\ do_whois /\ info.by = "network_info")
         => (WhoisPerformed /\ out[Len(out)] \in WhoisOutcomes)
    /\ (Exited /\ (brief \/ do_whois) /\ ~Contains(arg, "/"))
         => (exitCode = 1 /\ ~pm.called /\ info = NoInfo)

(***************************************************************************)
(* C9: in every record of mask_to_info, the cidr is the number of          *)
(* contiguous leading set bits of the reported netmask and the wildcard is *)
(* the complement of that netmask.                                         *)
(***************************************************************************)
C9_CidrOfReportedNetmask ==
    info.by = "mask_to_info"
        => /\ info.cidr = LeadingOnes(info.netmask)
           /\ \A k \in 1..32 : WordBit(info.wildcard, k) = 1 - WordBit(info.netmask, k)

(***************************************************************************)
(* C10: a four-part token that is not a valid IPv4 address and whose parts *)
(* are decimal integer literals is accepted as a literal mask only if      *)
(* every part is in 0..255, and fails with InvalidFormat otherwise, under  *)
(* both policies.                                                          *)
(***************************************************************************)
AllPartsLiterals(tok) ==
    LET parts == Split(tok, ".")
    IN Len(parts) = 4 /\ \A i \in 1..4 : PyIntOk(parts[i])

AllPartsInRange(tok) ==
    LET parts == Split(tok, ".")
    IN \A i \in 1..4 : PyInt(parts[i]) >= 0 /\ PyInt(parts[i]) <= 255

C10_OctetRange ==
    (pm.called /\ AllPartsLiterals(pm.mask_str) /\ ~IsIPv4(pm.mask_str))
        => IF AllPartsInRange(pm.mask_str)
           THEN pm.kind = "return" => pm.value = pm.mask_str
           ELSE InvalidFormat

====
